---- MODULE Spec2Model ----
(***************************************************************************)
(* The /upload orchestration pipeline of main.py (FastAPI handler          *)
(* `upload` and its helpers), with the storage provider (pCloud), the      *)
(* media extractor (yt_dlp), the tagging service (Gemini) and the metadata *)
(* store (Supabase) as collaborators whose replies are chosen              *)
(* nondeterministically.                                                   *)
(***************************************************************************)
EXTENDS Integers, Sequences, FiniteSets, TLC

(***************************************************************************)
(* Bounds of the model.                                                    *)
(***************************************************************************)
\* number of /upload requests the server handles (each in its own thread)
NumRequests == 2
\* at most this many configuration variables are unset in the environment
MaxMissing == 1
\* longest per-category array of the tagging fixtures
MaxTagLen == 2

Requests == 1 .. NumRequests

(***************************************************************************)
(* Module-level configuration and constants.                               *)
(***************************************************************************)
ConfigKeys ==
    {"PCLOUD_AUTH_TOKEN", "YOUTUBE_COOKIES", "SUPABASE_URL",
     "SUPABASE_SERVICE_KEY", "GEMINI_API_KEY"}

SONGS_FOLDER == "songs"
IMGS_FOLDER == "imgs"

\* Python's None
None == "<None>"
\* ids are pairs <<who made it, what it is>>; NoId is one no provider reply carries
NoId == <<>>

(***************************************************************************)
(* JSON values: [kind, v].  A JSON object is a function from the keys it   *)
(* holds to JSON values; dict.get(key, default) is Get.                    *)
(***************************************************************************)
JStr(s) == [kind |-> "string", v |-> s]
JArr(a) == [kind |-> "array", v |-> a]
JObj(f) == [kind |-> "object", v |-> f]
JNull == [kind |-> "null", v |-> <<>>]

Get(d, k, default) == IF k \in DOMAIN d THEN d[k] ELSE default

(***************************************************************************)
(* The text of a tagging reply, as a sequence of tokens: a backtick, the   *)
(* word json, a blank, a newline, prose that is no JSON, or one complete   *)
(* JSON document.                                                          *)
(***************************************************************************)
Tok(t) == [t |-> t, d |-> JNull]
Doc(d) == [t |-> "doc", d |-> d]
Tick == Tok("tick")
JsonWord == Tok("json")
Sp == Tok("sp")
Nl == Tok("nl")
Prose == Tok("prose")

RECURSIVE LStrip(_, _)
LStrip(s, chars) ==
    IF s # <<>> /\ Head(s).t \in chars THEN LStrip(Tail(s), chars) ELSE s

RECURSIVE RStrip(_, _)
RStrip(s, chars) ==
    IF s # <<>> /\ s[Len(s)].t \in chars
    THEN RStrip(SubSeq(s, 1, Len(s) - 1), chars)
    ELSE s

\* str.strip(chars)
Strip(s, chars) == RStrip(LStrip(s, chars), chars)

Whitespace == {"sp", "nl"}

\* str.startswith of the json code fence (three backticks and the word json)
StartsWithFence(s) ==
    /\ Len(s) >= 4
    /\ s[1].t = "tick" /\ s[2].t = "tick" /\ s[3].t = "tick"
    /\ s[4].t = "json"

\* str.replace("json", "", 1): the first occurrence only
RECURSIVE ReplaceFirstJson(_)
ReplaceFirstJson(s) ==
    IF s = <<>> THEN <<>>
    ELSE IF Head(s).t = "json" THEN Tail(s)
    ELSE <<Head(s)>> \o ReplaceFirstJson(Tail(s))

\* raw_text after the fence removal of get_tags_from_gemini
Unfence(raw_text) ==
    IF StartsWithFence(raw_text)
    THEN Strip(ReplaceFirstJson(Strip(raw_text, {"tick", "sp", "nl"})), Whitespace)
    ELSE raw_text

\* json.loads: one document, blanks around it allowed
json_loads(s) ==
    LET body == Strip(s, Whitespace)
    IN  IF Len(body) = 1 /\ body[1].t = "doc"
        THEN [ok |-> TRUE, value |-> body[1].d]
        ELSE [ok |-> FALSE, value |-> JNull]

\* the categories with the first two exchanged
CategoriesSwapped == <<"mood", "genre", "occasion", "era", "vocal_instrument">>

\* the list of line 141
Categories == <<"genre", "mood", "occasion", "era", "vocal_instrument">>

\* one round of the loop `for cat in [...]: tags.extend(result.get(cat, []))`;
\* extending by a value that is no array raises TypeError
RECURSIVE ExtendAll(_, _, _)
ExtendAll(result, cats, tags) ==
    IF cats = <<>> THEN [ok |-> TRUE, tags |-> tags]
    ELSE LET x == Get(result, Head(cats), JArr(<<>>))
         IN  IF x.kind = "array"
             THEN ExtendAll(result, Tail(cats), tags \o x.v)
             ELSE [ok |-> FALSE, tags |-> <<>>]

ParseError == "Error parsing Gemini response"
ApiError == "Gemini API Error"

Raise(msg) == [ok |-> FALSE, error |-> msg, value |-> None]
Return(v) == [ok |-> TRUE, error |-> None, value |-> v]

\* the try block of get_tags_from_gemini (lines 135-148): any exception in
\* it is raised again as a parse error (lines 150-151)
ParseReply(response) ==
    IF response.candidates = <<>>
    THEN Raise(ParseError)
    ELSE LET loaded == json_loads(Unfence(response.candidates[1]))
         IN  IF ~loaded.ok \/ loaded.value.kind # "object"
             THEN Raise(ParseError)
             ELSE LET result == loaded.value.v
                      ext == ExtendAll(result, Categories, <<>>)
                  IN  IF ~ext.ok
                      THEN Raise(ParseError)
                      ELSE Return(
                             [artist |-> Get(result, "artist", JStr("Unknown")).v,
                              language |-> Get(result, "language", JStr("Unknown")).v,
                              tags |-> ext.tags])

\* a get_tags_from_gemini that answers a reply it cannot parse with defaults
get_tags_or_defaults(response) ==
    IF response.status = 200
    THEN IF ParseReply(response).ok
         THEN ParseReply(response)
         ELSE Return([artist |-> "Unknown", language |-> "Unknown", tags |-> <<>>])
    ELSE Raise(ApiError)

\* get_tags_from_gemini, from the reply of the POST on
get_tags_from_gemini(response) ==
    IF response.status = 200
    THEN ParseReply(response)
    ELSE Raise(ApiError)

(***************************************************************************)
(* Collaborator fixtures.                                                  *)
(***************************************************************************)
\* items of the root folder listing: metadata.contents of listfolder
Folder(name, id) == [name |-> name, isfolder |-> TRUE, folderid |-> id]
File(name) == [name |-> name, isfolder |-> FALSE, folderid |-> NoId]

\* what the account's root may hold before the first request
RootCandidates ==
    <<File(SONGS_FOLDER), Folder("other", <<0, "other">>),
      Folder(SONGS_FOLDER, <<0, SONGS_FOLDER>>), Folder(IMGS_FOLDER, <<0, IMGS_FOLDER>>)>>

RECURSIVE SubSeqs(_)
SubSeqs(s) ==
    IF s = <<>> THEN {<<>>}
    ELSE LET rest == SubSeqs(Tail(s))
         IN  rest \cup {<<Head(s)>> \o t : t \in rest}

AllRoots == SubSeqs(RootCandidates)

\* the roots the concurrent runs start from
InitialRoots ==
    {<<>>,
     <<File(SONGS_FOLDER), Folder("other", <<0, "other">>),
       Folder(SONGS_FOLDER, <<0, SONGS_FOLDER>>)>>}

\* info dicts of yt_dlp's extract_info
Infos ==
    {[title |-> "Test Song", thumbnail |-> "https://img.example/t.jpg"],
     [thumbnail |-> "https://img.example/t.jpg"],
     [title |-> "Test Song"]}

\* the reply of the end-to-end scenario and a sparse one
SceneObject ==
    JObj([artist |-> JStr("X"), language |-> JStr("english"),
          genre |-> JArr(<<"pop">>), mood |-> JArr(<<"happy">>),
          occasion |-> JArr(<<>>), era |-> JArr(<<>>),
          vocal_instrument |-> JArr(<<>>)])
SparseObject == JObj([era |-> JArr(<<"90s", "retro">>), genre |-> JArr(<<"rock">>)])

\* a reply of the tagging service; name tells the fixtures apart
GeminiReply(name, status, candidates) ==
    [name |-> name, status |-> status, candidates |-> candidates]

\* tagging replies the pipeline is run against
\* the scenario's object inside a json fence; a bare object; prose before the
\* object; a JSON array; no candidate at all; the service unavailable
SceneReply ==
    GeminiReply("scene", 200, <<<<Tick, Tick, Tick, JsonWord, Nl, Doc(SceneObject), Nl, Tick, Tick, Tick>>>>)
SparseReply == GeminiReply("sparse", 200, <<<<Doc(SparseObject)>>>>)
ProseReply == GeminiReply("prose", 200, <<<<Prose, Sp, Doc(SceneObject)>>>>)
ArrayReply == GeminiReply("array", 200, <<<<Doc(JArr(<<"pop">>))>>>>)
EmptyReply == GeminiReply("empty", 200, <<>>)
UnavailableReply == GeminiReply("unavailable", 503, <<>>)

\* tagging replies the pipeline is run against
PipelineReplies ==
    {SceneReply, SparseReply, ProseReply, ArrayReply, EmptyReply, UnavailableReply}

\* those of them that carry a JSON object as asked for
GoodReplies == {SceneReply, SparseReply}

(***************************************************************************)
(* State.                                                                  *)
(***************************************************************************)
VARIABLES
    env,        \* the configuration variables that are set (os.getenv is truthy)
    root,       \* storage provider: contents of folder 0, in listing order
    files,      \* storage provider: the files uploaded
    tempFiles,  \* local disk: paths of the temporary cookie files that exist
    db,         \* metadata store: rows of table songs, in insertion order
    pc,         \* per request: the statement of upload() it is at
    at,         \* per request: its position inside the helper it is in
    loc,        \* per request: the local variables of upload()
    calls,      \* per request: the collaborator calls issued so far
    responses,  \* per request: the HTTP responses sent
    fixture,    \* the tagging reply handed to get_tags_from_gemini
    parsed      \* what get_tags_from_gemini made of fixture

vars == <<env, root, files, tempFiles, db, pc, at, loc, calls,
          responses, fixture, parsed>>

NoTags == [artist |-> None, language |-> None, tags |-> <<>>]
NoRecord ==
    [file_id |-> NoId, img_id |-> NoId, name |-> None, artist |-> None,
     language |-> None, tags |-> <<>>, views |-> 0 - 1, likes |-> 0 - 1]

InitLocals ==
    [cookie_path |-> NoId, songs_folder_id |-> NoId, imgs_folder_id |-> NoId,
     thumb_url |-> None, song_name |-> None, fileid |-> NoId,
     file_id |-> NoId, img_id |-> NoId, tag_data |-> NoTags,
     insert_data |-> NoRecord, err |-> None]

\* supabase = create_client(SUPABASE_URL, SUPABASE_KEY) at import: the client
\* library refuses an absent url or key, and the module does not load
AppStarted == {"SUPABASE_URL", "SUPABASE_SERVICE_KEY"} \subseteq env

Environments == {ConfigKeys \ m : m \in {x \in SUBSET ConfigKeys : Cardinality(x) <= MaxMissing}}

NoFixture == GeminiReply("none", 0, <<>>)

InitWith(environments, roots) ==
    /\ env \in environments
    /\ root \in roots
    /\ files = {}
    /\ tempFiles = {}
    /\ db = <<>>
    /\ pc = [r \in Requests |-> "idle"]
    /\ at = [r \in Requests |-> "run"]
    /\ loc = [r \in Requests |-> InitLocals]
    /\ calls = [r \in Requests |-> <<>>]
    /\ responses = [r \in Requests |-> <<>>]
    /\ parsed = Raise(None)

Init == InitWith(Environments, InitialRoots) /\ fixture = NoFixture

(***************************************************************************)
(* The handler upload(): its statements, in order.                         *)
(***************************************************************************)
\* the statements with tagging moved before the thumbnail upload
StatementsTagsEarly ==
    <<"check", "cookie", "songs", "imgs", "fetch", "thumb", "audio_up",
      "tags", "img_up", "insert", "cleanup", "return">>

Statements ==
    <<"check", "cookie", "songs", "imgs", "fetch", "thumb", "audio_up",
      "img_up", "tags", "insert", "cleanup", "return">>

Index(stage) == CHOOSE i \in 1 .. Len(Statements) : Statements[i] = stage

\* the statement after `stage`; after the return statement the request is over
Continue(stage) ==
    IF Index(stage) = Len(Statements) THEN "done" ELSE Statements[Index(stage) + 1]

\* where a statement starts: inside get_or_create_folder, inside upload_file,
\* or as one step
Entry(stage) ==
    IF stage \in {"songs", "imgs"} THEN "list"
    ELSE IF stage \in {"audio_up", "img_up"} THEN "uploadfile"
    ELSE "run"

\* the argument of get_or_create_folder at statements 163 and 164
FolderName(stage) == IF stage = "songs" THEN SONGS_FOLDER ELSE IMGS_FOLDER

\* a collaborator call; whether it was answered, and with success where the
\* handler looks (it looks at no result code of listfolder and at nothing of
\* getfilepublink); and what the answer gave the handler
Call(name, arg, ok, ret) == [call |-> name, arg |-> arg, ok |-> ok, ret |-> ret]

Log(r, entry) == calls' = [calls EXCEPT ![r] = Append(@, entry)]

Step(r, stage, locals) ==
    /\ pc' = [pc EXCEPT ![r] = stage]
    /\ at' = [at EXCEPT ![r] = Entry(stage)]
    /\ loc' = [loc EXCEPT ![r] = locals]

\* the statement completes and the next one is reached
Advance(r, locals) == Step(r, Continue(pc[r]), locals)

\* an exception propagates to `except Exception as e`
Throw(r, msg) == Step(r, "except", [loc[r] EXCEPT !.err = msg])

\* replies of the storage provider and of the other collaborators: served,
\* answered with an error body, or no answer at all (requests raises)
ReplyKinds == {"ok", "error", "raise"}

(***************************************************************************)
(* Request arrival and lines 159-162.                                      *)
(***************************************************************************)
Receive(r) ==
    /\ AppStarted
    /\ pc[r] = "idle"
    /\ Step(r, "check", loc[r])
    /\ UNCHANGED <<env, root, files, tempFiles, db, calls, responses,
                   fixture, parsed>>

\* `not AUTH_TOKEN or not YOUTUBE_COOKIES_BASE64`
MissingEnvironmentVars ==
    "PCLOUD_AUTH_TOKEN" \notin env \/ "YOUTUBE_COOKIES" \notin env

CheckEnv(r) ==
    /\ pc[r] = "check"
    /\ IF MissingEnvironmentVars
       THEN Throw(r, "Missing environment vars")
       ELSE Advance(r, loc[r])
    /\ UNCHANGED <<env, root, files, tempFiles, db, calls, responses,
                   fixture, parsed>>

CookiePath(r) == <<r, "cookies.txt">>

\* write_temp_cookie_file: b64decode raises on a blob that is no base64,
\* before the file is made
WriteTempCookieFile(r) ==
    /\ pc[r] = "cookie"
    /\ \E decodes \in BOOLEAN :
         IF decodes
         THEN /\ tempFiles' = tempFiles \cup {CookiePath(r)}
              /\ Advance(r, [loc[r] EXCEPT !.cookie_path = CookiePath(r)])
         ELSE /\ tempFiles' = tempFiles
              /\ Throw(r, "Incorrect padding")
    /\ UNCHANGED <<env, root, files, db, calls, responses, fixture, parsed>>

(***************************************************************************)
(* get_or_create_folder.                                                   *)
(***************************************************************************)
\* a lookup that takes the first folder, whatever its name
RECURSIVE FindFirstFolder(_, _)
FindFirstFolder(contents, folder_name) ==
    IF contents = <<>> THEN NoId
    ELSE IF Head(contents).isfolder
         THEN Head(contents).folderid
         ELSE FindFirstFolder(Tail(contents), folder_name)

\* the loop over the listing: the id of the first folder of that name
RECURSIVE FindFolder(_, _)
FindFolder(contents, folder_name) ==
    IF contents = <<>> THEN NoId
    ELSE IF Head(contents).isfolder /\ Head(contents).name = folder_name
         THEN Head(contents).folderid
         ELSE FindFolder(Tail(contents), folder_name)

\* res.json().get("metadata", {}).get("contents", []) of the listfolder reply
Contents(reply) == IF reply = "ok" THEN root ELSE <<>>

SetFolderId(r, id) ==
    IF pc[r] = "songs"
    THEN [loc[r] EXCEPT !.songs_folder_id = id]
    ELSE [loc[r] EXCEPT !.imgs_folder_id = id]

ListFolder(r) ==
    /\ pc[r] \in {"songs", "imgs"}
    /\ at[r] = "list"
    /\ \E reply \in ReplyKinds :
         /\ Log(r, Call("listfolder", FolderName(pc[r]), reply # "raise",
                         IF reply = "raise" THEN NoId
                         ELSE FindFolder(Contents(reply), FolderName(pc[r]))))
         /\ IF reply = "raise"
            THEN Throw(r, "listfolder")
            ELSE LET found == FindFolder(Contents(reply), FolderName(pc[r]))
                 IN  IF found # NoId
                     THEN Advance(r, SetFolderId(r, found))
                     ELSE /\ at' = [at EXCEPT ![r] = "create"]
                          /\ UNCHANGED <<pc, loc>>
    /\ UNCHANGED <<env, root, files, tempFiles, db, responses, fixture, parsed>>

\* the id the provider gives the folder it makes for this call
NewFolderId(r, folder_name) == <<r, folder_name>>

\* a createfolder step that looks again and makes nothing if the folder is there
CreateFolderIfAbsent(r) ==
    /\ pc[r] \in {"songs", "imgs"}
    /\ at[r] = "create"
    /\ IF FindFolder(root, FolderName(pc[r])) # NoId
       THEN /\ Advance(r, SetFolderId(r, FindFolder(root, FolderName(pc[r]))))
            /\ UNCHANGED <<root, calls>>
       ELSE \E reply \in ReplyKinds :
              /\ Log(r, Call("createfolder", FolderName(pc[r]), reply = "ok",
                              IF reply = "ok" THEN NewFolderId(r, FolderName(pc[r])) ELSE NoId))
              /\ IF reply = "ok"
                 THEN /\ root' = Append(root, Folder(FolderName(pc[r]),
                                                     NewFolderId(r, FolderName(pc[r]))))
                      /\ Advance(r, SetFolderId(r, NewFolderId(r, FolderName(pc[r]))))
                 ELSE /\ root' = root
                      /\ Throw(r, "createfolder")
    /\ UNCHANGED <<env, files, tempFiles, db, responses, fixture, parsed>>

CreateFolder(r) ==
    /\ pc[r] \in {"songs", "imgs"}
    /\ at[r] = "create"
    /\ \E reply \in ReplyKinds :
         /\ Log(r, Call("createfolder", FolderName(pc[r]), reply = "ok",
                         IF reply = "ok" THEN NewFolderId(r, FolderName(pc[r])) ELSE NoId))
         /\ IF reply = "ok"
            THEN /\ root' = Append(root, Folder(FolderName(pc[r]),
                                                NewFolderId(r, FolderName(pc[r]))))
                 /\ Advance(r, SetFolderId(r, NewFolderId(r, FolderName(pc[r]))))
            ELSE /\ root' = root
                 /\ Throw(r, "createfolder")
    /\ UNCHANGED <<env, files, tempFiles, db, responses, fixture, parsed>>

(***************************************************************************)
(* download_audio_and_thumbnail and download_thumbnail.                    *)
(***************************************************************************)
DownloadAudioAndThumbnail(r) ==
    /\ pc[r] = "fetch"
    /\ \/ \E info \in Infos :
            /\ Log(r, Call("extract_info", "", TRUE, Get(info, "title", None)))
            /\ Advance(r, [loc[r] EXCEPT
                             !.song_name = Get(info, "title", "Unknown"),
                             !.thumb_url = Get(info, "thumbnail", None)])
       \/ /\ Log(r, Call("extract_info", "", FALSE, None))
          /\ Throw(r, "DownloadError")
    /\ UNCHANGED <<env, root, files, tempFiles, db, responses, fixture, parsed>>

\* a download_thumbnail that does not look at the status
download_thumbnail_unchecked(status_code) == Return("thumbnail.jpg")

\* download_thumbnail, from the status of the GET on
download_thumbnail(status_code) ==
    IF status_code = 200
    THEN Return("thumbnail.jpg")
    ELSE Raise("Thumbnail download failed")

ThumbnailStatuses == {200, 404}

DownloadThumbnail(r) ==
    /\ pc[r] = "thumb"
    /\ IF loc[r].thumb_url = None
       THEN \* requests.get(None) raises before anything is sent
            /\ Throw(r, "MissingSchema")
            /\ UNCHANGED calls
       ELSE \/ \E status_code \in ThumbnailStatuses :
                 /\ Log(r, Call("thumbnail", "", status_code = 200, None))
                 /\ IF download_thumbnail(status_code).ok
                    THEN Advance(r, loc[r])
                    ELSE Throw(r, download_thumbnail(status_code).error)
            \/ /\ Log(r, Call("thumbnail", "", FALSE, None))
               /\ Throw(r, "ConnectionError")
    /\ UNCHANGED <<env, root, files, tempFiles, db, responses, fixture, parsed>>

(***************************************************************************)
(* upload_file.                                                            *)
(***************************************************************************)
\* which artifact statements 171 and 172 upload, and into which folder
Artifact(stage) == IF stage = "audio_up" THEN "audio" ELSE "thumb"
FolderOf(r) ==
    IF pc[r] = "audio_up" THEN loc[r].songs_folder_id ELSE loc[r].imgs_folder_id

\* the id the provider gives the file it stores for this call
NewFileId(r, artifact) == <<r, artifact>>

UploadFilePost(r) ==
    /\ pc[r] \in {"audio_up", "img_up"}
    /\ at[r] = "uploadfile"
    /\ \E reply \in ReplyKinds :
         /\ Log(r, Call("uploadfile", Artifact(pc[r]), reply = "ok",
                         IF reply = "ok" THEN NewFileId(r, Artifact(pc[r])) ELSE NoId))
         /\ IF reply = "ok"
            THEN /\ files' = files \cup
                       {[fileid |-> NewFileId(r, Artifact(pc[r])), folderid |-> FolderOf(r)]}
                 /\ at' = [at EXCEPT ![r] = "publink"]
                 /\ loc' = [loc EXCEPT ![r].fileid = NewFileId(r, Artifact(pc[r]))]
                 /\ pc' = pc
            ELSE /\ files' = files
                 /\ Throw(r, "uploadfile")
    /\ UNCHANGED <<env, root, tempFiles, db, responses, fixture, parsed>>

\* `return fileid, filename` into file_id (171) or img_id (172)
SetFileId(r) ==
    IF pc[r] = "audio_up"
    THEN [loc[r] EXCEPT !.file_id = loc[r].fileid]
    ELSE [loc[r] EXCEPT !.img_id = loc[r].fileid]

\* the reply of getfilepublink is not looked at (line 43), so the provider's
\* table of public links is not part of the state
GetFilePubLink(r) ==
    /\ pc[r] \in {"audio_up", "img_up"}
    /\ at[r] = "publink"
    /\ \E reply \in ReplyKinds :
         /\ Log(r, Call("getfilepublink", Artifact(pc[r]), reply # "raise", None))
         /\ IF reply = "raise"
            THEN Throw(r, "getfilepublink")
            ELSE Advance(r, SetFileId(r))
    /\ UNCHANGED <<env, root, files, tempFiles, db, responses, fixture, parsed>>

(***************************************************************************)
(* Tagging, persist, cleanup, the two responses.                           *)
(***************************************************************************)
\* without a key the service answers no request with 200
Answers(reply) == reply.status = 200 => "GEMINI_API_KEY" \in env

GetTagsFromGemini(r) ==
    /\ pc[r] = "tags"
    /\ \/ \E response \in PipelineReplies :
            /\ Answers(response)
            /\ Log(r, Call("generateContent", "", response \in GoodReplies,
                            IF response \in GoodReplies THEN response.name ELSE None))
            /\ IF get_tags_from_gemini(response).ok
               THEN Advance(r, [loc[r] EXCEPT
                                  !.tag_data = get_tags_from_gemini(response).value])
               ELSE Throw(r, get_tags_from_gemini(response).error)
       \/ /\ Log(r, Call("generateContent", "", FALSE, None))
          /\ Throw(r, "ConnectionError")
    /\ UNCHANGED <<env, root, files, tempFiles, db, responses, fixture, parsed>>

\* insert_data with the two ids exchanged
InsertDataSwapped(l) ==
    [file_id |-> l.img_id, img_id |-> l.file_id, name |-> l.song_name,
     artist |-> l.tag_data.artist, language |-> l.tag_data.language,
     tags |-> l.tag_data.tags, views |-> 0, likes |-> 0]

\* insert_data of lines 178-187
InsertData(l) ==
    [file_id |-> l.file_id, img_id |-> l.img_id, name |-> l.song_name,
     artist |-> l.tag_data.artist, language |-> l.tag_data.language,
     tags |-> l.tag_data.tags, views |-> 0, likes |-> 0]

\* supabase.table("songs").insert(insert_data).execute()
Insert(r) ==
    /\ pc[r] = "insert"
    /\ \E stored \in BOOLEAN :
         /\ Log(r, Call("insert", "", stored, None))
         /\ IF stored
            THEN /\ db' = Append(db, InsertData(loc[r]))
                 /\ Advance(r, [loc[r] EXCEPT !.insert_data = InsertData(loc[r])])
            ELSE /\ db' = db
                 /\ Throw(r, "APIError")
    /\ UNCHANGED <<env, root, files, tempFiles, responses, fixture, parsed>>

\* lines 191-193: the buffers are closed and the cookie file removed
Cleanup(r) ==
    /\ pc[r] = "cleanup"
    /\ tempFiles' = tempFiles \ {loc[r].cookie_path}
    /\ Advance(r, loc[r])
    /\ UNCHANGED <<env, root, files, db, calls, responses, fixture, parsed>>

Response(status, content, detail) ==
    [status |-> status, content |-> content, detail |-> detail]

\* return JSONResponse(content=insert_data)
ReturnResponse(r) ==
    /\ pc[r] = "return"
    /\ responses' = [responses EXCEPT
                       ![r] = Append(@, Response(200, loc[r].insert_data, None))]
    /\ Advance(r, InitLocals)
    /\ UNCHANGED <<env, root, files, tempFiles, db, calls, fixture, parsed>>

\* an except clause that deletes what the request uploaded
ExceptEffectRollback(r) ==
    [files |-> {f \in files : f.fileid[1] # r}, tempFiles |-> tempFiles, db |-> db]

\* what the except clause does to the provider's files, the disk and the table
ExceptEffect(r) == [files |-> files, tempFiles |-> tempFiles, db |-> db]

\* except Exception as e: raise HTTPException(status_code=500, detail=str(e))
Except(r) ==
    /\ pc[r] = "except"
    /\ files' = ExceptEffect(r).files
    /\ tempFiles' = ExceptEffect(r).tempFiles
    /\ db' = ExceptEffect(r).db
    /\ responses' = [responses EXCEPT
                       ![r] = Append(@, Response(500, NoRecord, loc[r].err))]
    /\ Step(r, "done", InitLocals)
    /\ UNCHANGED <<env, root, calls, fixture, parsed>>

Proceed(r) ==
    \/ CheckEnv(r)
    \/ WriteTempCookieFile(r)
    \/ ListFolder(r)
    \/ CreateFolder(r)
    \/ DownloadAudioAndThumbnail(r)
    \/ DownloadThumbnail(r)
    \/ UploadFilePost(r)
    \/ GetFilePubLink(r)
    \/ GetTagsFromGemini(r)
    \/ Insert(r)
    \/ Cleanup(r)
    \/ ReturnResponse(r)
    \/ Except(r)

\* requests are served by a thread pool: their steps interleave freely
Next == \E r \in Requests : Receive(r) \/ Proceed(r)

Spec == Init /\ [][Next]_vars

(***************************************************************************)
(* Requests served one after the other (a single worker): request r starts *)
(* when the requests before it have been answered.                         *)
(***************************************************************************)
InitSeq == InitWith({ConfigKeys}, AllRoots) /\ fixture = NoFixture

Alone(r) == \A q \in Requests : q < r => pc[q] = "done"

ReceiveAlone(r) == Alone(r) /\ Receive(r)

NextSeq == \E r \in Requests : ReceiveAlone(r) \/ Proceed(r)

SpecSeq == InitSeq /\ [][NextSeq]_vars

(***************************************************************************)
(* get_tags_from_gemini on its own, over a bounded family of replies.      *)
(***************************************************************************)
\* arrays of at most MaxTagLen words of a vocabulary
TagArrays(vocabulary) ==
    UNION {[1 .. n -> vocabulary] : n \in 0 .. MaxTagLen}

ObjectKeys ==
    {"artist", "language", "genre", "mood", "occasion", "era", "vocal_instrument"}

\* the values a reply may give each key; the service is asked for words of
\* the predefined lists and may answer others, or null
ObjectValues ==
    [artist : {JStr("X")},
     language : {JStr("english")},
     genre : {JArr(a) : a \in TagArrays({"pop", "rock"})},
     mood : {JArr(a) : a \in TagArrays({"happy", "pop"})},
     occasion : {JArr(<<"party">>)},
     era : {JArr(<<>>), JArr(<<"90s">>), JNull},
     vocal_instrument : {JArr(<<"duet">>)}]

\* the texts a JSON document arrives in: bare, fenced, fenced on one line,
\* behind prose
Texts(d) ==
    {<<Doc(d)>>,
     <<Tick, Tick, Tick, JsonWord, Nl, Doc(d), Nl, Tick, Tick, Tick>>,
     <<Tick, Tick, Tick, JsonWord, Sp, Doc(d), Tick, Tick, Tick, Nl>>,
     <<Prose, Nl, Doc(d)>>}

\* a reply with a JSON object that holds any of the keys, in any of the texts;
\* or one of the replies the pipeline is run against
InitTags ==
    /\ InitWith({ConfigKeys}, {<<>>})
    /\ \/ \E present \in SUBSET ObjectKeys, values \in ObjectValues :
            \E t \in Texts(JObj([k \in present |-> values[k]])) :
               fixture = GeminiReply("generated", 200, <<t>>)
       \/ fixture \in PipelineReplies

ApplyGetTags ==
    /\ fixture # NoFixture
    /\ parsed' = get_tags_from_gemini(fixture)
    /\ UNCHANGED <<env, root, files, tempFiles, db, pc, at, loc, calls,
                   responses, fixture>>

NextTags == ApplyGetTags

SpecTags == InitTags /\ [][NextTags]_vars

(***************************************************************************)
(* Reading the history of a request.                                       *)
(***************************************************************************)
Entries(r, name, arg) ==
    {i \in 1 .. Len(calls[r]) : calls[r][i].call = name /\ calls[r][i].arg = arg}

Answered(r, name, arg) == \E i \in Entries(r, name, arg) : calls[r][i].ok

RetOf(r, name, arg) == calls[r][CHOOSE i \in Entries(r, name, arg) : TRUE].ret

Failed(r) == \E i \in 1 .. Len(calls[r]) : ~calls[r][i].ok

Status(r) == IF responses[r] = <<>> THEN 0 - 1 ELSE responses[r][1].status

RowsOf(r) ==
    {i \in 1 .. Len(db) :
        db[i].file_id \in {NewFileId(r, "audio"), NewFileId(r, "thumb")}}

Stored(r) == RowsOf(r) # {}

Uploaded(r, artifact) == \E f \in files : f.fileid = NewFileId(r, artifact)

FoldersNamed(n) == {i \in 1 .. Len(root) : root[i].isfolder /\ root[i].name = n}

(***************************************************************************)
(* C1                                                                      *)
(***************************************************************************)
UploadsOk(r) == Uploaded(r, "audio") /\ Uploaded(r, "thumb")
TaggingOk(r) == Answered(r, "generateContent", "")
InsertIssued(r) == Entries(r, "insert", "") # {}

\* C1 as stated: when a request has ended, a record of it is in the metadata
\* store if and only if both of its uploads and its tagging step succeeded.
C1_RecordIffAllSucceeded ==
    \A r \in Requests :
        pc[r] = "done" => (Stored(r) <=> (UploadsOk(r) /\ TaggingOk(r)))

\* C1 amended: the insert is issued if and only if both uploads and the
\* tagging step succeeded (never after a failed or unparseable tagging reply
\* or an earlier failure); a record is in the store if and only if that insert
\* itself succeeded; at most one insert and one record per request.
C1_InsertIffAllSucceeded ==
    \A r \in Requests :
        /\ InsertIssued(r) => (UploadsOk(r) /\ TaggingOk(r))
        /\ (pc[r] = "done" /\ UploadsOk(r) /\ TaggingOk(r)) => InsertIssued(r)
        /\ Stored(r) <=> Answered(r, "insert", "")
        /\ Cardinality(RowsOf(r)) <= 1
        /\ Cardinality(Entries(r, "insert", "")) <= 1

\* one request has stored its record, another ended on a tagging reply that
\* is no JSON object and stored nothing
C1_Witness ==
    \E r, q \in Requests :
        /\ pc[r] = "done" /\ Stored(r) /\ Status(r) = 200
        /\ pc[q] = "done" /\ ~Stored(q) /\ UploadsOk(q)
        /\ Entries(q, "generateContent", "") # {} /\ ~TaggingOk(q)
        /\ responses[q][1].detail = ParseError

(***************************************************************************)
(* C2                                                                      *)
(***************************************************************************)
\* C2 as stated: when a request has ended, on whichever path, the temporary
\* cookie file it made no longer exists.
C2_CookieFileRemovedOnEveryExit ==
    \A r \in Requests : pc[r] = "done" => CookiePath(r) \notin tempFiles

(***************************************************************************)
(* C3                                                                      *)
(***************************************************************************)
\* C3: the call at which a step fails is the last call the request issues;
\* a request sends one response, when it ends: 200 with the record and no
\* message after no failure, else 500 with a message and no record.
C3_FirstFailureAborts ==
    \A r \in Requests :
        /\ \A i \in 1 .. Len(calls[r]) : ~calls[r][i].ok => i = Len(calls[r])
        /\ Len(responses[r]) <= 1
        /\ pc[r] = "done" <=> Len(responses[r]) = 1
        /\ Status(r) = 200 =>
              /\ ~Failed(r)
              /\ responses[r][1].content # NoRecord
              /\ responses[r][1].detail = None
        /\ (pc[r] = "done" /\ Status(r) # 200) =>
              /\ Status(r) = 500
              /\ responses[r][1].content = NoRecord
              /\ responses[r][1].detail # None
        /\ (pc[r] = "done" /\ Failed(r)) => Status(r) = 500

\* the thumbnail fetch was answered 404: the request ended with the 500
\* response, and issued neither an upload nor an insert
C3_Witness ==
    \E r \in Requests :
        /\ pc[r] = "done"
        /\ Entries(r, "thumbnail", "") # {} /\ ~Answered(r, "thumbnail", "")
        /\ responses[r][1].detail = "Thumbnail download failed"
        /\ Entries(r, "uploadfile", "audio") = {}
        /\ Entries(r, "insert", "") = {}

(***************************************************************************)
(* C4                                                                      *)
(***************************************************************************)
\* what the two good tagging replies say
TagsSaid(name) ==
    IF name = "scene"
    THEN [artist |-> "X", language |-> "english", tags |-> <<"pop", "happy">>]
    ELSE [artist |-> "Unknown", language |-> "Unknown",
          tags |-> <<"rock", "90s", "retro">>]

\* C4: the body of a 200 response is the one record the request stored; its
\* file id and image id are the ids the two uploads returned, its name the
\* title of the media fetch ("Unknown" when the extractor gave none), its
\* artist, language and tags those of the tagging reply, views and likes 0.
C4_SuccessRecord ==
    \A r \in Requests :
        Status(r) = 200 =>
            LET c == responses[r][1].content
            IN  /\ \A i \in RowsOf(r) : db[i] = c
                /\ Cardinality(RowsOf(r)) = 1
                /\ c.file_id = RetOf(r, "uploadfile", "audio")
                /\ c.img_id = RetOf(r, "uploadfile", "thumb")
                /\ c.file_id # c.img_id
                /\ Uploaded(r, "audio") /\ Uploaded(r, "thumb")
                /\ c.name = IF RetOf(r, "extract_info", "") = None THEN "Unknown"
                            ELSE RetOf(r, "extract_info", "")
                /\ c.artist = TagsSaid(RetOf(r, "generateContent", "")).artist
                /\ c.language = TagsSaid(RetOf(r, "generateContent", "")).language
                /\ c.tags = TagsSaid(RetOf(r, "generateContent", "")).tags
                /\ c.views = 0 /\ c.likes = 0

\* the end-to-end scenario of the specification
C4_Witness ==
    \E r \in Requests :
        /\ Status(r) = 200
        /\ responses[r][1].content =
              [file_id |-> NewFileId(r, "audio"), img_id |-> NewFileId(r, "thumb"),
               name |-> "Test Song", artist |-> "X", language |-> "english",
               tags |-> <<"pop", "happy">>, views |-> 0, likes |-> 0]
        /\ db # <<>>

(***************************************************************************)
(* C5                                                                      *)
(***************************************************************************)
\* request r got a folder id for name n from get_or_create_folder
Returned(r, n) ==
    \/ \E i \in Entries(r, "listfolder", n) : calls[r][i].ret # NoId
    \/ Answered(r, "createfolder", n)

ReturnedId(r, n) ==
    IF Answered(r, "createfolder", n)
    THEN RetOf(r, "createfolder", n)
    ELSE RetOf(r, "listfolder", n)

Creates(r, n) == Cardinality(Entries(r, "createfolder", n))

\* a folder of that name was there when r was received: from the start, or
\* made by a request served before r
ExistedBefore(r, n) == \E i \in FoldersNamed(n) : root[i].folderid[1] < r

\* the listing r was given held the folders that were there
Faithful(r, n) ==
    \A i \in Entries(r, "listfolder", n) :
        calls[r][i].ok /\ (calls[r][i].ret = NoId => ~ExistedBefore(r, n))

\* C5: with requests served one after the other from any root, and listings
\* that hold the folders that are there, two calls of get_or_create_folder
\* with one name that both return issue at most one createfolder between
\* them (none if the folder was there from the start), return the same id,
\* and leave exactly one folder of that name.
C5_SequentialIdempotence ==
    \A n \in {SONGS_FOLDER, IMGS_FOLDER} :
        \A q, r \in Requests :
            (/\ q < r
             /\ Returned(q, n) /\ Returned(r, n)
             /\ \A p \in Requests : Faithful(p, n))
            => /\ Creates(q, n) + Creates(r, n) <= 1
               /\ (\E i \in FoldersNamed(n) : root[i].folderid[1] = 0)
                     => Creates(q, n) + Creates(r, n) = 0
               /\ ReturnedId(q, n) = ReturnedId(r, n)
               /\ Cardinality(FoldersNamed(n)) = 1

\* the root held a file named songs and no such folder: the first call made
\* the folder, the second found it
C5_Witness ==
    \E q, r \in Requests :
        /\ q < r
        /\ Returned(q, SONGS_FOLDER) /\ Returned(r, SONGS_FOLDER)
        /\ \A p \in Requests : Faithful(p, SONGS_FOLDER)
        /\ Creates(q, SONGS_FOLDER) = 1 /\ Creates(r, SONGS_FOLDER) = 0
        /\ ReturnedId(r, SONGS_FOLDER) = NewFolderId(q, SONGS_FOLDER)
        /\ \E i \in 1 .. Len(root) : ~root[i].isfolder /\ root[i].name = SONGS_FOLDER

(***************************************************************************)
(* C6                                                                      *)
(***************************************************************************)
\* the JSON document in the text of a reply
DocOf(response) ==
    LET text == response.candidates[1]
    IN  text[CHOOSE i \in 1 .. Len(text) : text[i].t = "doc"].d

Arr(obj, cat) == IF cat \in DOMAIN obj THEN obj[cat].v ELSE <<>>

\* C6: the tags get_tags_from_gemini returns are the reply's arrays for
\* genre, mood, occasion, era, vocal_instrument, in that order and each in
\* its own order, an absent category giving nothing; the language is not
\* among them.
C6_TagsAreConcatenation ==
    parsed.ok =>
        LET obj == DocOf(fixture).v
        IN  /\ parsed.value.tags =
                  Arr(obj, "genre") \o Arr(obj, "mood") \o Arr(obj, "occasion")
                  \o Arr(obj, "era") \o Arr(obj, "vocal_instrument")
            /\ \A i \in 1 .. Len(parsed.value.tags) : parsed.value.tags[i] # "english"

\* a fenced reply with two genres, no mood, an era and a language
C6_Witness ==
    /\ parsed.ok
    /\ StartsWithFence(fixture.candidates[1])
    /\ LET obj == DocOf(fixture).v
       IN  /\ "mood" \notin DOMAIN obj
           /\ "language" \in DOMAIN obj
           /\ Len(Arr(obj, "genre")) = 2
           /\ Arr(obj, "genre")[1] # Arr(obj, "genre")[2]
           /\ Arr(obj, "era") # <<>>
           /\ "vocal_instrument" \in DOMAIN obj
           /\ Len(parsed.value.tags) = 4

(***************************************************************************)
(* C7                                                                      *)
(***************************************************************************)
\* C7 as stated: with a configuration variable missing, no temporary file is
\* written and no collaborator is called, and a request that has ended was
\* answered 500 with the configuration error.
C7_MissingConfigFailsFirst ==
    env # ConfigKeys =>
        /\ tempFiles = {}
        /\ \A r \in Requests :
              /\ calls[r] = <<>>
              /\ pc[r] = "done" =>
                    /\ Status(r) = 500
                    /\ responses[r][1].detail = "Missing environment vars"

(***************************************************************************)
(* C8                                                                      *)
(***************************************************************************)
FolderStage(n) == IF n = SONGS_FOLDER THEN "songs" ELSE "imgs"

\* C8: a request whose lookup found no folder of the name goes on to call
\* createfolder for it, whatever other requests have made in the meantime:
\* after such a lookup the request is about to call createfolder, or
\* createfolder is the next call it issued.
C8_CreateAfterStaleLookup ==
    \A r \in Requests :
        \A i \in 1 .. Len(calls[r]) :
            (calls[r][i].call = "listfolder" /\ calls[r][i].ok
                /\ calls[r][i].ret = NoId)
            => IF i = Len(calls[r])
               THEN pc[r] = FolderStage(calls[r][i].arg) /\ at[r] = "create"
               ELSE /\ calls[r][i + 1].call = "createfolder"
                    /\ calls[r][i + 1].arg = calls[r][i].arg

\* two requests both looked up songs before either made it, both made it:
\* the root holds two folders named songs
C8_Witness ==
    \E q, r \in Requests :
        /\ q # r
        /\ Answered(q, "createfolder", SONGS_FOLDER)
        /\ Answered(r, "createfolder", SONGS_FOLDER)
        /\ Cardinality(FoldersNamed(SONGS_FOLDER)) = 2
        /\ Cardinality({root[i].folderid : i \in FoldersNamed(SONGS_FOLDER)}) = 2

(***************************************************************************)
(* C9                                                                      *)
(***************************************************************************)
KnownCalls ==
    {"listfolder", "createfolder", "extract_info", "thumbnail", "uploadfile",
     "getfilepublink", "generateContent", "insert"}

\* C9: a file the provider stored for a request stays stored, whatever
\* happens to the request afterwards, and no call other than the pipeline's
\* own (no delete) is issued; a request that ended after its audio upload
\* succeeded and a later call failed was answered 500 and stored no record.
C9_NoCompensation ==
    \A r \in Requests :
        /\ \A a \in {"audio", "thumb"} :
              Answered(r, "uploadfile", a) => Uploaded(r, a)
        /\ \A i \in 1 .. Len(calls[r]) : calls[r][i].call \in KnownCalls
        /\ (pc[r] = "done" /\ Answered(r, "uploadfile", "audio") /\ Failed(r))
              => Status(r) = 500 /\ ~Stored(r)

\* the audio upload succeeded, the thumbnail upload failed, the request has
\* ended: the audio file is still stored
C9_Witness ==
    \E r \in Requests :
        /\ pc[r] = "done" /\ Status(r) = 500
        /\ Answered(r, "uploadfile", "audio")
        /\ Entries(r, "uploadfile", "thumb") # {}
        /\ ~Answered(r, "uploadfile", "thumb")
        /\ Uploaded(r, "audio") /\ ~Uploaded(r, "thumb")
        /\ ~Stored(r)

(***************************************************************************)
(* C10                                                                     *)
(***************************************************************************)
\* the calls of one request in the order the specification gives the steps
CallOrder ==
    <<[call |-> "listfolder", arg |-> SONGS_FOLDER],
      [call |-> "createfolder", arg |-> SONGS_FOLDER],
      [call |-> "listfolder", arg |-> IMGS_FOLDER],
      [call |-> "createfolder", arg |-> IMGS_FOLDER],
      [call |-> "extract_info", arg |-> ""],
      [call |-> "thumbnail", arg |-> ""],
      [call |-> "uploadfile", arg |-> "audio"],
      [call |-> "getfilepublink", arg |-> "audio"],
      [call |-> "uploadfile", arg |-> "thumb"],
      [call |-> "getfilepublink", arg |-> "thumb"],
      [call |-> "generateContent", arg |-> ""],
      [call |-> "insert", arg |-> ""]>>

Rank(e) ==
    CHOOSE k \in 1 .. Len(CallOrder) :
        CallOrder[k].call = e.call /\ CallOrder[k].arg = e.arg

\* createfolder is called only when the lookup found nothing
OptionalRanks == {k \in 1 .. Len(CallOrder) : CallOrder[k].call = "createfolder"}

\* the calls that may follow the call of rank k: the next one, and the one
\* after it when the next one is a createfolder
Successors(k) ==
    IF k + 1 \in OptionalRanks THEN {k + 1, k + 2} ELSE {k + 1}

\* C10: the calls of a request follow the one order cookie file, songs
\* folder, image folder, media fetch, thumbnail fetch, audio upload,
\* thumbnail upload, tagging, insert, cleanup, response: a call is issued
\* only after every call before it in that order was issued and answered
\* with success (createfolder only right after its lookup), and after the
\* cookie file was written; the 200 response is sent only after the insert
\* was answered and the cookie file removed.
C10_FixedOrder ==
    \A r \in Requests :
        /\ \A i \in 1 .. Len(calls[r]) :
              IF i = 1
              THEN Rank(calls[r][i]) = 1
              ELSE /\ calls[r][i - 1].ok
                   /\ Rank(calls[r][i]) \in Successors(Rank(calls[r][i - 1]))
        /\ calls[r] # <<>> =>
              \/ CookiePath(r) \in tempFiles
              \/ pc[r] = "return"
              \/ Status(r) = 200
        /\ pc[r] \in {"cleanup", "return"} => Answered(r, "insert", "")
        /\ pc[r] = "return" => CookiePath(r) \notin tempFiles
        /\ Status(r) = 200 =>
              /\ Answered(r, "insert", "")
              /\ CookiePath(r) \notin tempFiles

\* a request that made both folders and was answered 200: twelve calls
C10_Witness ==
    \E r \in Requests :
        /\ Status(r) = 200
        /\ Len(calls[r]) = Len(CallOrder)
        /\ \A i \in 1 .. Len(calls[r]) : Rank(calls[r][i]) = i
====
